---- MODULE Spec2Model ----
(***************************************************************************)
(* Model of the RAG backend (src/backend/main.py): the chunker, the        *)
(* collection lifecycle, and the /index, /chat and DELETE /collection      *)
(* handlers as they run on the single event loop of the ASGI worker.       *)
(*                                                                         *)
(* Text is a sequence of one-character strings.  Python indices are        *)
(* 0-based; the operators below take Python indices and convert.           *)
(***************************************************************************)
EXTENDS Integers, Sequences, FiniteSets, TLC

VARIABLES
    CHUNK_SIZE,     \* module global, read once from the environment
    CHUNK_OVERLAP,  \* module global, read once from the environment
    \* -- _chunk_text run step by step (ChunkSpec) --
    ctext,          \* the argument text
    cstart,         \* local start
    cchunks,        \* local chunks (trimmed windows, unfiltered)
    cwindows,       \* the [lo, hi) position ranges the slices actually took
    cresult,        \* the returned list
    cpc,            \* "loop" | "done" ("off" while the service runs)
    \* -- the service (Spec) --
    phase,          \* "starting" (lifespan before yield) | "ready" ("off" in ChunkSpec)
    store,          \* the vector store: collection name -> NoColl or a collection
    nextUuid,       \* uuid.uuid4(): the next value of the stream of fresh ids
    pc,             \* per request slot: position of its handler
    kind,           \* per request slot: "none" | "index" | "chat" | "reset"
    arg,            \* per request slot: the uploaded file / the ChatRequest
    local,          \* per request slot: the handler's local variables
    resp,           \* the response last sent, with its request and the calls it made
    calls,          \* per request slot: capabilities the handler has invoked so far
    indexedOk,      \* per file: successful /index responses since the collection was last deleted
    obsAbsent,      \* some search or upsert found the collection missing
    preReset        \* per request slot: ids of the points its reset found and deleted

cvars == <<ctext, cstart, cchunks, cwindows, cresult, cpc>>

svars == <<phase, store, nextUuid, pc, kind, arg, local, resp, calls,
           indexedOk, obsAbsent, preReset>>

vars == <<CHUNK_SIZE, CHUNK_OVERLAP, cvars, svars>>

\* ------------------------------------------------------------------ bounds
MaxTextLen == 60   \* short input texts have 0..MaxTextLen characters
MaxIter    == 8    \* iterations of the chunker loop that are explored
NumReqs    == 2    \* request slots (requests in flight at the same time)
MaxUuid    == 2    \* /index requests are accepted while nextUuid < MaxUuid

\* --------------------------------------------------------- program constants
MinChunkLen == 20  \* "len(c) > 20"
DefaultChunkSize == 512
DefaultChunkOverlap == 64
EmbedDim == 384    \* get_sentence_embedding_dimension() of the default EMBED_MODEL

\* ------------------------------------------------------------ str helpers
Min(a, b) == IF a < b THEN a ELSE b
Max(a, b) == IF a > b THEN a ELSE b

Whitespace == {" ", "\n", "\t"}

\* Python's text[a:b] with a, b any integers (negative indices count from the
\* end, out-of-range indices are clamped).
ClampIndex(i, n) == IF i < 0 THEN Max(i + n, 0) ELSE Min(i, n)

SliceLo(text, a) == ClampIndex(a, Len(text))
SliceHi(text, a, b) == Max(ClampIndex(a, Len(text)), ClampIndex(b, Len(text)))

Slice(text, a, b) == SubSeq(text, SliceLo(text, a) + 1, SliceHi(text, a, b))

\* str.strip(): drop leading and trailing whitespace.
RECURSIVE LStrip(_)
LStrip(s) == IF s # <<>> /\ Head(s) \in Whitespace THEN LStrip(Tail(s)) ELSE s

RECURSIVE RStrip(_)
RStrip(s) ==
    IF s # <<>> /\ s[Len(s)] \in Whitespace
    THEN RStrip(SubSeq(s, 1, Len(s) - 1))
    ELSE s

Strip(s) == RStrip(LStrip(s))

\* ----------------------------------------------------------- _chunk_text
\* "start += CHUNK_SIZE - CHUNK_OVERLAP"
StrideMutGap(start) == start + CHUNK_SIZE + CHUNK_OVERLAP
NextStart(start) == start + (CHUNK_SIZE - CHUNK_OVERLAP)

\* "text[start:end].strip()" with end = start + CHUNK_SIZE
Window(text, start) == Strip(Slice(text, start, start + CHUNK_SIZE))

\* "len(c) > 20"
KeepChunkMutGeq(c) == Len(c) >= MinChunkLen
KeepChunk(c) == Len(c) > MinChunkLen

\* the while loop, as a function (used by the /index handler)
RECURSIVE ChunkLoop(_, _, _)
ChunkLoop(text, start, chunks) ==
    IF start < Len(text)
    THEN ChunkLoop(text, NextStart(start), Append(chunks, Window(text, start)))
    ELSE chunks

ChunkText(text) == SelectSeq(ChunkLoop(text, 0, <<>>), KeepChunk)

\* ------------------------------------------------- inputs of the chunker
Letters == <<"a", "b", "c", "d", "e">>

\* A text of n characters: `lead` leading and `trail` trailing blanks, and
\* (period > 0) a blank closing every period-th position.
MkText(n, lead, trail, period) ==
    [i \in 1..n |->
        IF (i <= lead) \/ (i > n - trail) \/ (period > 0 /\ i % period = 0)
        THEN " "
        ELSE Letters[(i % 5) + 1]]

Leads   == {0, 1}
Trails  == {0, 2, 140}
Periods == {0, 7}

ShortTexts ==
    {MkText(n, l, t, p) : n \in 0..MaxTextLen, l \in Leads, t \in Trails, p \in Periods}

LongTexts == {MkText(600, l, t, p) : l \in Leads, t \in Trails, p \in Periods}

Cfg(size, overlap) == [size |-> size, overlap |-> overlap]

ValidCfg(c) == 0 <= c.overlap /\ c.overlap < c.size

DefaultCfg == Cfg(DefaultChunkSize, DefaultChunkOverlap)

\* configurations tried on the short texts (strides of at least 10, so that a
\* valid configuration finishes within MaxIter iterations), valid and invalid
ShortCfgs ==
    {Cfg(30, 5), Cfg(25, 0), Cfg(24, 3), Cfg(40, 30), Cfg(22, 1), DefaultCfg,
     Cfg(30, 30), Cfg(30, 40), Cfg(30, 0 - 5), Cfg(0, 0), Cfg(0 - 5, 0 - 15)}

ChunkInputs ==
    {<<t, c>> : t \in ShortTexts, c \in ShortCfgs}
        \cup {<<t, c>> : t \in LongTexts, c \in {DefaultCfg}}

ValidConfig == ValidCfg(Cfg(CHUNK_SIZE, CHUNK_OVERLAP))

\* ====================================================================
\* The service
\* ====================================================================
Reqs == 1..NumReqs

NoVal == "none"

COLLECTION_NAME == "rag_documents"
OtherName == "other_collection"
Names == {COLLECTION_NAME, OtherName}

NoColl == [absent |-> TRUE]

Caps == {"embed", "search", "upsert", "generate"}

Fallback == "No relevant documents found. Please index some documents first."

\* ---------------------------------------------------------------- uploads
\* An upload: its filename and, per page (one page for a text file), the text
\* the extraction capability yields.
Name_a_txt   == <<"a", ".", "t", "x", "t">>
Name_B_PDF   == <<"B", ".", "P", "D", "F">>
Name_docx    == <<"n", ".", "p", "d", "f", ".", "d", "o", "c", "x">>
Name_e_txt   == <<"e", ".", "t", "x", "t">>
Name_s_txt   == <<"s", ".", "t", "x", "t">>

Files ==
    [a |-> [filename |-> Name_a_txt,   pages |-> <<MkText(50, 0, 0, 0)>>],
     b |-> [filename |-> Name_B_PDF,   pages |-> <<MkText(12, 0, 1, 0), MkText(11, 1, 0, 0)>>],
     d |-> [filename |-> Name_docx,    pages |-> <<MkText(50, 0, 0, 0)>>],
     e |-> [filename |-> Name_e_txt,   pages |-> <<MkText(3, 3, 0, 0)>>],
     s |-> [filename |-> Name_s_txt,   pages |-> <<MkText(10, 0, 0, 0)>>]]

FileIds == DOMAIN Files

\* str.lower() on the characters that occur in the filenames
Lower(c) ==
    CASE c = "A" -> "a" [] c = "B" -> "b" [] c = "D" -> "d" [] c = "F" -> "f"
      [] c = "P" -> "p" [] c = "T" -> "t" [] c = "X" -> "x"
      [] OTHER -> c

LowerStr(str) == [i \in 1..Len(str) |-> Lower(str[i])]

\* str.endswith(suffix)
EndsWith(str, suffix) ==
    /\ Len(suffix) <= Len(str)
    /\ SubSeq(str, Len(str) - Len(suffix) + 1, Len(str)) = suffix

ExtPdf == <<".", "p", "d", "f">>
ExtTxt == <<".", "t", "x", "t">>

\* "file.filename.lower().endswith((".pdf", ".txt"))"
SupportedFileMutAny(filename) == TRUE
SupportedFile(filename) ==
    EndsWith(LowerStr(filename), ExtPdf) \/ EndsWith(LowerStr(filename), ExtTxt)

\* "\n".join(pages)
RECURSIVE JoinLines(_)
JoinLines(pages) ==
    IF pages = <<>> THEN <<>>
    ELSE IF Len(pages) = 1 THEN pages[1]
    ELSE pages[1] \o <<"\n">> \o JoinLines(Tail(pages))

\* _extract_text: the pages of a PDF joined by newlines, else the decoded bytes
ExtractText(f) ==
    IF EndsWith(LowerStr(Files[f].filename), ExtPdf)
    THEN JoinLines(Files[f].pages)
    ELSE Files[f].pages[1]

\* "not text.strip()" / "not request.query.strip()"
IsBlank(text) == Strip(text) = <<>>

\* ---------------------------------------------------------------- queries
Queries ==
    [empty |-> <<>>,
     blank |-> <<" ", " ">>,
     why   |-> <<"w", "h", "y", "?">>]

QueryIds == DOMAIN Queries

\* the ChatRequest bodies tried: query and top_k
ChatRequests ==
    {[query |-> "empty", top_k |-> 1], [query |-> "blank", top_k |-> 2],
     [query |-> "why", top_k |-> 1], [query |-> "why", top_k |-> 2]}

\* ----------------------------------------------------------- vector store
Collection(size, distance, points) ==
    [size |-> size, distance |-> distance, points |-> points]

OtherDim == 2 * EmbedDim

\* a point left in the store by an earlier run of some service
LegacyPoint(dim) ==
    [id |-> 0, dim |-> dim,
     payload |-> [text |-> <<"o", "l", "d">>, source |-> <<"o", "l", "d">>,
                  document_id |-> 0, chunk_id |-> 0]]

\* what the vector store may hold before this process starts
PreCollections ==
    {NoColl,
     Collection(EmbedDim, "Cosine", {}),
     Collection(EmbedDim, "Cosine", {LegacyPoint(EmbedDim)}),
     Collection(OtherDim, "Cosine", {LegacyPoint(OtherDim)})}

PreOthers == {Collection(OtherDim, "Dot", {})}

Exists(s) == s[COLLECTION_NAME] # NoColl

PointsOf(s) == IF Exists(s) THEN s[COLLECTION_NAME].points ELSE {}

\* _ensure_collection
EnsureCollectionMutRecreate(s) ==
    [s EXCEPT ![COLLECTION_NAME] = Collection(EmbedDim, "Cosine", {})]
EnsureCollection(s) ==
    IF COLLECTION_NAME \notin {n \in Names : s[n] # NoColl}
    THEN [s EXCEPT ![COLLECTION_NAME] = Collection(EmbedDim, "Cosine", {})]
    ELSE s

\* delete_collection
DeleteCollection(s) == [s EXCEPT ![COLLECTION_NAME] = NoColl]

\* _embed: one vector of the model's dimension per text
Embed(texts) == [i \in 1..Len(texts) |-> [dim |-> EmbedDim]]

\* the ids minted by "str(uuid.uuid4())" for the points of one upload
PointIdMutFromChunk(base, idx) == idx + 1
PointId(base, idx) == base + idx

\* the points built by index_document (idx is the 0-based enumerate index)
BuildPoints(chunks, embeddings, filename, docId, base) ==
    {[id |-> PointId(base, i - 1), dim |-> embeddings[i].dim,
      payload |-> [text |-> chunks[i], source |-> filename,
                   document_id |-> docId, chunk_id |-> i - 1]] :
        i \in 1..Min(Len(chunks), Len(embeddings))}

\* upsert: does the store accept the points?
UpsertAccepts(s, points) ==
    /\ Exists(s)
    /\ \A p \in points : p.dim = s[COLLECTION_NAME].size

\* upsert: a point whose id is already present replaces the old one
Upsert(s, points) ==
    [s EXCEPT ![COLLECTION_NAME].points =
        {q \in @ : \A p \in points : p.id # q.id} \cup points]

\* search: does the store accept the query vector?
SearchAccepts(s, vec) ==
    /\ Exists(s)
    /\ vec.dim = s[COLLECTION_NAME].size

\* search: the possible results, at most top_k distinct points in ranking
\* order (the ranking is the store's)
SearchResults(s, topK) ==
    LET ps == PointsOf(s)
        n  == Min(topK, Cardinality(ps))
    IN  {h \in [1..n -> ps] : \A i, j \in 1..n : i # j => h[i] # h[j]}

\* _retrieve: the hits as RetrievedSource records
ToSources(hits) ==
    [i \in 1..Len(hits) |->
        [text |-> hits[i].payload.text, source |-> hits[i].payload.source,
         chunk_id |-> hits[i].payload.chunk_id]]

\* "if not sources"
NoSourcesMutNever(sources) == FALSE
NoSources(sources) == Len(sources) = 0

\* ------------------------------------------------------------- event loop
\* Handler positions inside a stretch of code with no await: while a request
\* is at one of them it occupies the event loop and no other handler runs.
SyncPcsMutGenerateOffLoop == {"retrieve", "upsert", "ensure"}
SyncPcsMutResetAwaits == {"retrieve", "generating", "upsert"}
SyncPcs == {"retrieve", "generating", "upsert", "ensure"}

CanRun(r) == phase = "ready" /\ \A o \in Reqs \ {r} : pc[o] \notin SyncPcs

InitSlots(v) == [r \in Reqs |-> v]

NoResp == [kind |-> NoVal]

ServiceOff ==
    /\ phase = "off"
    /\ store = [n \in Names |-> NoColl]
    /\ nextUuid = 1
    /\ pc = InitSlots("idle")
    /\ kind = InitSlots(NoVal)
    /\ arg = InitSlots(NoVal)
    /\ local = InitSlots(NoVal)
    /\ calls = InitSlots({})
    /\ preReset = InitSlots({})
    /\ resp = NoResp
    /\ indexedOk = [f \in FileIds |-> 0]
    /\ obsAbsent = FALSE

ServiceCfgs == {Cfg(30, 5)}

Init ==
    /\ \E c \in ServiceCfgs : CHUNK_SIZE = c.size /\ CHUNK_OVERLAP = c.overlap
    /\ ctext = <<>> /\ cstart = 0 /\ cchunks = <<>> /\ cwindows = <<>>
    /\ cresult = <<>> /\ cpc = "off"
    /\ phase = "starting"
    /\ \E c \in PreCollections, o \in PreOthers :
          store = [n \in Names |-> IF n = COLLECTION_NAME THEN c ELSE o]
    /\ nextUuid = 1
    /\ pc = InitSlots("idle")
    /\ kind = InitSlots(NoVal)
    /\ arg = InitSlots(NoVal)
    /\ local = InitSlots(NoVal)
    /\ calls = InitSlots({})
    /\ preReset = InitSlots({})
    /\ resp = NoResp
    /\ indexedOk = [f \in FileIds |-> 0]
    /\ obsAbsent = FALSE

Frame == UNCHANGED <<CHUNK_SIZE, CHUNK_OVERLAP, cvars>>

\* End of a handler: the response (or the HTTPException) goes out and the
\* handler's frame is gone.  resp keeps the response last sent, with the
\* request it answers and the capabilities that request invoked.
Finish(r, k, a, made, body) ==
    /\ pc' = [pc EXCEPT ![r] = "idle"]
    /\ kind' = [kind EXCEPT ![r] = NoVal]
    /\ arg' = [arg EXCEPT ![r] = NoVal]
    /\ local' = [local EXCEPT ![r] = NoVal]
    /\ calls' = [calls EXCEPT ![r] = {}]
    /\ preReset' = [preReset EXCEPT ![r] = {}]
    /\ resp' = [kind |-> k, arg |-> a, calls |-> made, body |-> body]

\* lifespan: models loaded, client connected, _ensure_collection(), yield
Startup ==
    /\ phase = "starting"
    /\ store' = EnsureCollection(store)
    /\ phase' = "ready"
    /\ Frame
    /\ UNCHANGED <<nextUuid, pc, kind, arg, local, resp, calls, indexedOk,
                   obsAbsent, preReset>>

\* A client sends a request.  Its handler has not started yet (it waits while
\* the event loop is occupied); the request is read when its handler starts.
\* The slots are interchangeable: a request takes the lowest free one.
Arrive(r) ==
    /\ phase = "ready"
    /\ pc[r] = "idle"
    /\ \A o \in Reqs : o < r => pc[o] # "idle"
    /\ pc' = [pc EXCEPT ![r] = "pending"]
    /\ Frame
    /\ UNCHANGED <<phase, store, nextUuid, kind, arg, local, resp, calls,
                   indexedOk, obsAbsent, preReset>>

\* index_document up to "await file.read()"
IndexBegin(r) ==
    /\ CanRun(r)
    /\ pc[r] = "pending"
    /\ nextUuid < MaxUuid
    /\ \E f \in FileIds :
        IF ~SupportedFile(Files[f].filename)
        THEN Finish(r, "index", f, calls[r], [status |-> 400])
        ELSE /\ pc' = [pc EXCEPT ![r] = "read"]
             /\ kind' = [kind EXCEPT ![r] = "index"]
             /\ arg' = [arg EXCEPT ![r] = f]
             /\ UNCHANGED <<local, calls, preReset, resp>>
    /\ Frame
    /\ UNCHANGED <<phase, store, nextUuid, indexedOk, obsAbsent>>

\* index_document from the resumption after file.read() to the embeddings:
\* _extract_text, the blank check, _chunk_text, doc_id, _embed
IndexExtract(r) ==
    /\ CanRun(r)
    /\ pc[r] = "read"
    /\ LET text == ExtractText(arg[r]) IN
        IF IsBlank(text)
        THEN /\ Finish(r, kind[r], arg[r], calls[r], [status |-> 422])
             /\ UNCHANGED nextUuid
        ELSE LET chunks == ChunkText(text) IN
             /\ local' = [local EXCEPT ![r] =
                    [chunks |-> chunks, doc_id |-> nextUuid,
                     embeddings |-> Embed(chunks)]]
             /\ nextUuid' = nextUuid + 1
             /\ calls' = [calls EXCEPT ![r] = @ \cup {"embed"}]
             /\ pc' = [pc EXCEPT ![r] = "upsert"]
             /\ UNCHANGED <<kind, arg, preReset, resp>>
    /\ Frame
    /\ UNCHANGED <<phase, store, indexedOk, obsAbsent>>

\* index_document: the points, the upsert and the response.  An upsert the
\* store rejects (collection missing, vector of another dimension) raises; an
\* upsert of no points at all is accepted or rejected, depending on the store.
IndexUpsert(r) ==
    /\ CanRun(r)
    /\ pc[r] = "upsert"
    /\ LET l    == local[r]
           ps   == BuildPoints(l.chunks, l.embeddings, Files[arg[r]].filename,
                               l.doc_id, nextUuid)
           made == calls[r] \cup {"upsert"}
       IN
        /\ nextUuid' = nextUuid + Len(l.chunks)
        /\ obsAbsent' = (obsAbsent \/ ~Exists(store))
        /\ \E emptyOk \in BOOLEAN :
            IF UpsertAccepts(store, ps) /\ (ps # {} \/ emptyOk)
            THEN /\ store' = Upsert(store, ps)
                 /\ indexedOk' = [indexedOk EXCEPT ![arg[r]] = @ + 1]
                 /\ Finish(r, kind[r], arg[r], made,
                           [status |-> 200, chunks_indexed |-> Len(l.chunks),
                            document_id |-> l.doc_id])
            ELSE /\ Finish(r, kind[r], arg[r], made, [status |-> 500])
                 /\ UNCHANGED <<store, indexedOk>>
    /\ Frame
    /\ UNCHANGED phase

\* chat: the blank-query check
ChatBegin(r) ==
    /\ CanRun(r)
    /\ pc[r] = "pending"
    /\ \E c \in ChatRequests :
        IF IsBlank(Queries[c.query])
        THEN Finish(r, "chat", c, calls[r], [status |-> 400])
        ELSE /\ pc' = [pc EXCEPT ![r] = "retrieve"]
             /\ kind' = [kind EXCEPT ![r] = "chat"]
             /\ arg' = [arg EXCEPT ![r] = c]
             /\ UNCHANGED <<local, calls, preReset, resp>>
    /\ Frame
    /\ UNCHANGED <<phase, store, nextUuid, indexedOk, obsAbsent>>

\* chat: _retrieve, then the fallback response or the entry into _generate
ChatRetrieve(r) ==
    /\ CanRun(r)
    /\ pc[r] = "retrieve"
    /\ LET qvec == Embed(<<Queries[arg[r].query]>>)[1]
           made == calls[r] \cup {"embed", "search"}
       IN
        /\ obsAbsent' = (obsAbsent \/ ~Exists(store))
        /\ IF ~SearchAccepts(store, qvec)
           THEN Finish(r, kind[r], arg[r], made, [status |-> 500])
           ELSE \E hits \in SearchResults(store, arg[r].top_k) :
                LET sources == ToSources(hits) IN
                IF NoSources(sources)
                THEN Finish(r, kind[r], arg[r], made,
                            [status |-> 200, answer |-> Fallback, sources |-> <<>>,
                             retrieved |-> sources])
                ELSE /\ pc' = [pc EXCEPT ![r] = "generating"]
                     /\ local' = [local EXCEPT ![r] = [sources |-> sources]]
                     /\ calls' = [calls EXCEPT ![r] = made \cup {"generate"}]
                     /\ UNCHANGED <<kind, arg, preReset, resp>>
    /\ Frame
    /\ UNCHANGED <<phase, store, nextUuid, indexedOk>>

\* chat: _generate returns and the response goes out
ChatGenerated(r) ==
    /\ CanRun(r)
    /\ pc[r] = "generating"
    /\ Finish(r, kind[r], arg[r], calls[r],
              [status |-> 200, answer |-> "generated",
               sources |-> local[r].sources, retrieved |-> local[r].sources])
    /\ Frame
    /\ UNCHANGED <<phase, store, nextUuid, indexedOk, obsAbsent>>

\* reset_collection: delete_collection
ResetDelete(r) ==
    /\ CanRun(r)
    /\ pc[r] = "pending"
    /\ kind' = [kind EXCEPT ![r] = "reset"]
    /\ preReset' = [preReset EXCEPT ![r] = {p.id : p \in PointsOf(store)}]
    /\ store' = DeleteCollection(store)
    /\ indexedOk' = [f \in FileIds |-> 0]
    /\ pc' = [pc EXCEPT ![r] = "ensure"]
    /\ Frame
    /\ UNCHANGED <<phase, nextUuid, arg, local, resp, calls, obsAbsent>>

\* reset_collection: _ensure_collection and the response
ResetEnsure(r) ==
    /\ CanRun(r)
    /\ pc[r] = "ensure"
    /\ store' = EnsureCollection(store)
    /\ Finish(r, kind[r], preReset[r], calls[r], [status |-> 200])
    /\ Frame
    /\ UNCHANGED <<phase, nextUuid, indexedOk, obsAbsent>>

Next ==
    \/ Startup
    \/ \E r \in Reqs :
        \/ Arrive(r)
        \/ IndexBegin(r)
        \/ IndexExtract(r)
        \/ IndexUpsert(r)
        \/ ChatBegin(r)
        \/ ChatRetrieve(r)
        \/ ChatGenerated(r)
        \/ ResetDelete(r)
        \/ ResetEnsure(r)

Spec == Init /\ [][Next]_vars

\* ------------------------------------------------ _chunk_text, stepwise
ChunkInit ==
    /\ \E in \in ChunkInputs :
        /\ ctext = in[1]
        /\ CHUNK_SIZE = in[2].size
        /\ CHUNK_OVERLAP = in[2].overlap
    /\ cstart = 0
    /\ cchunks = <<>>
    /\ cwindows = <<>>
    /\ cresult = <<>>
    /\ cpc = "loop"
    /\ ServiceOff

\* one iteration of "while start < len(text)"
ChunkIter ==
    /\ cpc = "loop"
    /\ cstart < Len(ctext)
    /\ Len(cchunks) < MaxIter
    /\ cchunks' = Append(cchunks, Window(ctext, cstart))
    /\ cwindows' = Append(cwindows,
            [lo |-> SliceLo(ctext, cstart),
             hi |-> SliceHi(ctext, cstart, cstart + CHUNK_SIZE)])
    /\ cstart' = NextStart(cstart)
    /\ UNCHANGED <<ctext, cresult, cpc, CHUNK_SIZE, CHUNK_OVERLAP, svars>>

\* loop exit and "return [c for c in chunks if len(c) > 20]"
ChunkReturn ==
    /\ cpc = "loop"
    /\ ~(cstart < Len(ctext))
    /\ cresult' = SelectSeq(cchunks, KeepChunk)
    /\ cpc' = "done"
    /\ UNCHANGED <<ctext, cstart, cchunks, cwindows, CHUNK_SIZE, CHUNK_OVERLAP, svars>>

ChunkNext == ChunkIter \/ ChunkReturn

ChunkSpec == ChunkInit /\ [][ChunkNext]_vars

\* ====================================================================
\* Properties of the chunker (checked under ChunkSpec)
\* ====================================================================

\* C3: whatever the configuration, the chunker either raises ConfigError
\* before looping or terminates; in particular it never performs an iteration
\* of the loop that leaves start where it was or moves it backwards (a
\* zero-progress loop).  _chunk_text has no validation and no raise.
C3_RaisesOrTerminates == [][ChunkIter => cstart' > cstart]_vars

\* the windows and their trimming, stated from positions (not from the loop)
ExpStride == CHUNK_SIZE - CHUNK_OVERLAP

ExpNumWindows == Cardinality({k \in 0..Len(ctext) : k * ExpStride < Len(ctext)})

ExpRawWindow(k) ==
    SubSeq(ctext, k * ExpStride + 1, Min(k * ExpStride + CHUNK_SIZE, Len(ctext)))

NonBlankAt(w) == {i \in 1..Len(w) : w[i] \notin Whitespace}

SetMin(S) == CHOOSE x \in S : \A y \in S : x <= y
SetMax(S) == CHOOSE x \in S : \A y \in S : x >= y

Trimmed(w) ==
    IF NonBlankAt(w) = {} THEN <<>>
    ELSE SubSeq(w, SetMin(NonBlankAt(w)), SetMax(NonBlankAt(w)))

LongerThanMin(c) == Len(c) > 20

ExpChunks ==
    SelectSeq([k \in 1..ExpNumWindows |-> Trimmed(ExpRawWindow(k - 1))], LongerThanMin)

Returned == cpc = "done" /\ ValidConfig

\* C9 (as amended): for a valid configuration the returned list is, in order,
\* exactly the trimmed windows text[k*stride : k*stride+chunk_size], k*stride <
\* len(text), whose trimmed length exceeds 20; no returned chunk has length
\* <= 20; and a 600-character text with 512/64 whose two trimmed windows are
\* both longer than 20 yields exactly 2 chunks.
C9_ChunksAreTrimmedWindows ==
    Returned =>
        /\ cresult = ExpChunks
        /\ \A i \in 1..Len(cresult) : Len(cresult[i]) > 20
        /\ (/\ Len(ctext) = 600
            /\ CHUNK_SIZE = 512
            /\ CHUNK_OVERLAP = 64
            /\ Len(Trimmed(SubSeq(ctext, 1, 512))) > 20
            /\ Len(Trimmed(SubSeq(ctext, 449, 600))) > 20)
           => Len(cresult) = 2

\* C9 witness: a valid run that returned at least two chunks, trimmed one of
\* them and discarded a short window.
C9_Witness ==
    /\ Returned
    /\ Len(cresult) >= 2
    /\ Len(cresult) < Len(cchunks)
    /\ \E i \in 1..Len(cwindows) :
          Len(cchunks[i]) > 20 /\ Len(cchunks[i]) < cwindows[i].hi - cwindows[i].lo

\* C9 as originally stated: every 600-character text with 512/64 yields
\* exactly 2 chunks.
C9_Original ==
    Returned =>
        /\ cresult = ExpChunks
        /\ \A i \in 1..Len(cresult) : Len(cresult[i]) > 20
        /\ (Len(ctext) = 600 /\ CHUNK_SIZE = 512 /\ CHUNK_OVERLAP = 64)
           => Len(cresult) = 2

Covered ==
    \A pos \in 0..(Len(ctext) - 1) :
        \E i \in 1..Len(cwindows) : cwindows[i].lo <= pos /\ pos < cwindows[i].hi

WindowLen(i) == cwindows[i].hi - cwindows[i].lo

OverlapOf(i) == cwindows[i].hi - cwindows[i + 1].lo

\* C10 (as amended): for a valid configuration the untrimmed windows cover
\* every position of [0, len(text)), and consecutive windows overlap by exactly
\* `overlap` characters, except that a later window shorter than `overlap`
\* lies wholly inside the previous one (they overlap by its whole length).
C10_Coverage ==
    Returned =>
        /\ Covered
        /\ \A i \in 1..(Len(cwindows) - 1) :
              OverlapOf(i) = Min(CHUNK_OVERLAP, WindowLen(i + 1))

\* C10 witness: a valid run of three or more windows with a positive overlap
\* whose last window is shorter than the overlap.
C10_Witness ==
    /\ Returned
    /\ Len(cwindows) >= 3
    /\ CHUNK_OVERLAP > 0
    /\ WindowLen(Len(cwindows)) < CHUNK_OVERLAP
    /\ OverlapOf(1) = CHUNK_OVERLAP

\* C10 as originally stated: every pair of consecutive windows overlaps by
\* exactly `overlap` characters.
C10_Original ==
    Returned =>
        /\ Covered
        /\ \A i \in 1..(Len(cwindows) - 1) : OverlapOf(i) = CHUNK_OVERLAP

\* a valid configuration is never cut short by MaxIter
ValidRunsComplete ==
    (ValidConfig /\ cpc = "loop" /\ cstart < Len(ctext)) => Len(cchunks) < MaxIter

\* ====================================================================
\* Properties of the service (checked under Spec)
\* ====================================================================
ChatAnswered == resp.kind = "chat" /\ resp.body.status = 200

\* C1: a chat request whose retrieval returned no source is answered with the
\* fixed fallback answer and an empty sources list and never invokes the
\* generation capability; generation is invoked only by requests whose
\* retrieval returned at least one source.
C1_FallbackWithoutGeneration ==
    /\ \A r \in Reqs :
        /\ pc[r] = "generating" => Len(local[r].sources) >= 1
        /\ "generate" \in calls[r] => pc[r] = "generating"
    /\ ChatAnswered =>
        /\ Len(resp.body.retrieved) = 0 =>
              /\ resp.body.answer = Fallback
              /\ resp.body.sources = <<>>
              /\ "generate" \notin resp.calls
        /\ "generate" \in resp.calls => Len(resp.body.retrieved) >= 1

\* C1 witness: a chat request searched, found nothing and got the fallback.
C1_Witness ==
    /\ ChatAnswered
    /\ "search" \in resp.calls
    /\ resp.body.retrieved = <<>>
    /\ resp.body.answer = Fallback

Generating == {r \in Reqs : pc[r] = "generating"}

\* C2: at most one invocation of _generate is in progress at any time.
C2_GenerationSerialized == Cardinality(Generating) <= 1

\* C2 witness: one chat request is inside _generate while another request,
\* already sent, waits for its handler to start.
C2_Witness ==
    \E r, o \in Reqs :
        /\ r # o
        /\ pc[r] = "generating"
        /\ pc[o] = "pending"

IndexedOkResp == resp.kind = "index" /\ resp.body.status = 200

PointsFrom(f) == {p \in PointsOf(store) : p.payload.source = Files[f].filename}

\* C4: re-indexing is additive: after a successful /index of a file, the
\* points of that file in the collection number chunks_indexed times the
\* successful /index requests of it since the collection was last deleted
\* (2 x chunks_indexed after the second), every point under an id of its own.
C4_ReindexAdditive ==
    /\ IndexedOkResp =>
        Cardinality(PointsFrom(resp.arg)) = indexedOk[resp.arg] * resp.body.chunks_indexed
    /\ \A p, q \in PointsOf(store) : p.id = q.id => p = q
    /\ \A p \in PointsOf(store) : p.id < nextUuid

\* C4 witness: the second successful /index of a two-chunk file has answered.
C4_Witness ==
    /\ IndexedOkResp
    /\ indexedOk[resp.arg] = 2
    /\ resp.body.chunks_indexed = 2
    /\ Cardinality(PointsFrom(resp.arg)) = 4

Accepting == phase = "ready" /\ \A r \in Reqs : pc[r] \notin SyncPcs

\* C5: whenever the service accepts requests, the configured collection exists
\* and its vector dimension is the embedding adapter's output dimension,
\* whatever the vector store held before startup.
C5_DimensionInvariant ==
    Accepting =>
        /\ Exists(store)
        /\ store[COLLECTION_NAME].size = EmbedDim

EnsureStep ==
    \/ phase = "starting" /\ phase' = "ready"
    \/ \E r \in Reqs : pc[r] = "ensure" /\ pc'[r] # "ensure"

\* C6: _ensure_collection leaves the store as it is when the collection is
\* present, creates exactly the empty cosine collection of the embedding
\* dimension when it is absent, and run again on its own result changes
\* nothing.
C6_EnsureIdempotent ==
    [][EnsureStep =>
        /\ Exists(store) => store' = store
        /\ ~Exists(store) =>
              store' = [store EXCEPT
                           ![COLLECTION_NAME] = Collection(EmbedDim, "Cosine", {})]
        /\ EnsureCollection(store') = store']_vars

\* C6 witness: a reset has re-created the collection, empty, next to the
\* other collection of the store.
C6_Witness ==
    /\ resp.kind = "reset"
    /\ store[COLLECTION_NAME] = Collection(EmbedDim, "Cosine", {})
    /\ store[OtherName] # NoColl

Resetting == {r \in Reqs : pc[r] = "ensure"}

\* C7: once a reset has completed (and while no later reset is under way) the
\* collection exists and holds none of the points that were there before it,
\* and no search or upsert of another request ever finds the collection
\* missing.
C7_ResetAtomic ==
    /\ ~obsAbsent
    /\ (resp.kind = "reset" /\ Resetting = {}) =>
        /\ Exists(store)
        /\ \A p \in PointsOf(store) : p.id \notin resp.arg

\* C7 witness: a reset that deleted points upserted by /index has completed.
C7_Witness ==
    /\ resp.kind = "reset"
    /\ \E i \in resp.arg : i > 0
    /\ Exists(store)

Ended(r) == pc[r] # "idle" /\ pc'[r] = "idle"

AllBlank(text) == \A i \in 1..Len(text) : text[i] \in Whitespace

HasSuffix(str, suffix) ==
    \E pre \in 0..Len(str) : str = SubSeq(str, 1, pre) \o suffix

BadExtension(f) ==
    /\ ~HasSuffix(LowerStr(Files[f].filename), ExtPdf)
    /\ ~HasSuffix(LowerStr(Files[f].filename), ExtTxt)

\* C8: /index of a file whose name ends in neither .pdf nor .txt is answered
\* 400, /index of a supported file whose extracted text is blank 422, /chat
\* with a blank query 400; a request answered 400 or 422 has invoked no
\* capability and has left the store (and the id stream) untouched.
C8_ValidationBeforeEffects ==
    [][\A r \in Reqs : Ended(r) =>
        /\ (resp'.kind = "index" /\ BadExtension(resp'.arg))
              => resp'.body.status = 400
        /\ (resp'.kind = "index" /\ ~BadExtension(resp'.arg)
                /\ AllBlank(ExtractText(resp'.arg)))
              => resp'.body.status = 422
        /\ (resp'.kind = "chat" /\ AllBlank(Queries[resp'.arg.query]))
              => resp'.body.status = 400
        /\ resp'.body.status \in {400, 422} =>
              /\ resp'.calls = {}
              /\ store' = store
              /\ nextUuid' = nextUuid]_vars

\* C8 witness: an upload with blank text was answered 422 while the
\* collection held indexed points.
C8_Witness ==
    /\ resp.kind = "index"
    /\ resp.body.status = 422
    /\ resp.calls = {}
    /\ \E p \in PointsOf(store) : p.id > 0

IndexAnswered == resp.kind = "index"

PointsOfDoc(docId) == {p \in PointsOf(store) : p.payload.document_id = docId}

\* C11: /index treats an empty chunk sequence as an extraction failure: an
\* upload of a supported file whose text chunks to nothing (blank, or non-blank
\* with every trimmed window of length <= 20) is answered 422 without an
\* upsert, so a successful /index response has chunks_indexed >= 1 and its
\* document has exactly chunks_indexed points, with chunk_id 0..chunks_indexed-1.
\* index_document checks only "not text.strip()" before chunking.
C11_EmptyChunksRejected ==
    IndexAnswered =>
        /\ (~BadExtension(resp.arg) /\ ChunkText(ExtractText(resp.arg)) = <<>>) =>
              /\ resp.body.status = 422
              /\ "upsert" \notin resp.calls
        /\ resp.body.status = 200 =>
              /\ resp.body.chunks_indexed >= 1
              /\ Resetting = {} =>
                    /\ Cardinality(PointsOfDoc(resp.body.document_id))
                          = resp.body.chunks_indexed
                    /\ {p.payload.chunk_id : p \in PointsOfDoc(resp.body.document_id)}
                          = 0..(resp.body.chunks_indexed - 1)

====
